---- MODULE Spec2Model ----
(***************************************************************************)
(* Trail-Analysis: the FIT ingestion and enrichment pipeline               *)
(* (src/trail_utils.py) and the analytics that consume its table           *)
(* (src/app.py), as a state machine.  One behaviour is one run of main()   *)
(* on one uploaded container: load_and_preprocess -> preprocess_all ->     *)
(* load_fit (stage by stage) -> enrich_energy -> ensure_cadence_spm, then  *)
(* the analytic the user selected.                                         *)
(*                                                                         *)
(* Numbers are exact rationals <<num, den>> with den > 0, in lowest terms; *)
(* the missing value (pandas NaN / None) is <<0, 0>>.  Floating-point      *)
(* rounding is not modelled.                                               *)
(***************************************************************************)
EXTENDS Integers, Sequences, FiniteSets, TLC

VARIABLES container, pc, df, exc, lf_ret, stages, result, analysis, fig

vars == <<container, pc, df, exc, lf_ret, stages, result, analysis, fig>>

(***************************************************************************)
(* Exact arithmetic                                                        *)
(***************************************************************************)
NaN == <<0, 0>>

IsNaN(v) == v[2] = 0

Abs(x) == IF x < 0 THEN -x ELSE x

RECURSIVE GCD(_, _)
GCD(a, b) == IF b = 0 THEN a ELSE GCD(b, a % b)

\* n/d in lowest terms with a positive denominator (d # 0)
Rat(n, d) ==
  LET g == GCD(Abs(n), Abs(d))
      s == IF d < 0 THEN -1 ELSE 1
  IN  <<s * (n \div g), s * (d \div g)>>

Num(n) == <<n, 1>>

RAdd(a, b) ==
  IF IsNaN(a) \/ IsNaN(b) THEN NaN
  ELSE LET g == GCD(a[2], b[2])
           l == (a[2] \div g) * b[2]
       IN  Rat(a[1] * (l \div a[2]) + b[1] * (l \div b[2]), l)

RNeg(a) == IF IsNaN(a) THEN NaN ELSE <<-a[1], a[2]>>

RSub(a, b) == RAdd(a, RNeg(b))

RMul(a, b) ==
  IF IsNaN(a) \/ IsNaN(b) THEN NaN
  ELSE LET g1 == GCD(Abs(a[1]), b[2])
           g2 == GCD(Abs(b[1]), a[2])
       IN  Rat((a[1] \div g1) * (b[1] \div g2), (a[2] \div g2) * (b[2] \div g1))

\* a / b; no call site of the program divides by zero (every divisor is
\* filtered or replaced by NaN first), and TLC stops if one did
RDiv(a, b) ==
  IF IsNaN(a) \/ IsNaN(b) THEN NaN
  ELSE CASE b[1] # 0 -> RMul(a, Rat(b[2], b[1]))

\* comparisons with a missing operand are False, as in IEEE / pandas
RLt(a, b) == ~IsNaN(a) /\ ~IsNaN(b) /\ RSub(a, b)[1] < 0

RLe(a, b) == ~IsNaN(a) /\ ~IsNaN(b) /\ RSub(a, b)[1] <= 0

RGt(a, b) == RLt(b, a)

RGe(a, b) == RLe(b, a)

\* floor of a rational (den > 0); \div rounds toward minus infinity
RFloor(a) == a[1] \div a[2]

\* numpy / pandas round(): to the nearest integer, ties to the even one
RRound(a) ==
  LET f == RFloor(a)
      twice == RSub(RMul(Num(2), a), Num(2 * f))   \* 2 * (a - f), in [0, 2)
  IN  IF twice[1] < twice[2] THEN f
      ELSE IF twice[1] > twice[2] THEN f + 1
      ELSE IF f % 2 = 0 THEN f ELSE f + 1

(***************************************************************************)
(* Series (pandas.Series as a sequence of values)                          *)
(***************************************************************************)
\* a sequence given by a rule, as an explicit tuple (each element is then
\* computed once, not on every access)
Tuple(f) == f \o <<>>

\* sum of s[lo..hi], missing if any term is; halved to keep evaluation shallow
RECURSIVE SumRange(_, _, _)
SumRange(s, lo, hi) ==
  IF lo > hi THEN Num(0)
  ELSE IF lo = hi THEN s[lo]
  ELSE LET mid == (lo + hi) \div 2
       IN  RAdd(SumRange(s, lo, mid), SumRange(s, mid + 1, hi))

SumSeq(s) == SumRange(s, 1, Len(s))

\* the k-th smallest element of a finite set of integers
Nth(S, k) == CHOOSE i \in S : Cardinality({j \in S : j <= i}) = k

\* the rows of s where mask holds, in order (s[mask])
Keep(s, mask) ==
  LET idx == {i \in 1..Len(s) : mask[i]}
  IN  Tuple([k \in 1..Cardinality(idx) |-> s[Nth(idx, k)]])

DropNaN(s) == Keep(s, Tuple([i \in 1..Len(s) |-> ~IsNaN(s[i])]))

\* Series.mean(): skips missing values; NaN when nothing is left
Mean(s) ==
  LET k == DropNaN(s)
  IN  IF k = <<>> THEN NaN ELSE RDiv(SumSeq(k), Num(Len(k)))

\* s (no missing values) in ascending order: the element of rank k is the
\* one with k - 1 elements before it, ties broken by position
SortAsc(s) ==
  LET before(j, i) == RLt(s[j], s[i]) \/ (s[j] = s[i] /\ j < i)
      rank == Tuple([i \in 1..Len(s) |-> Cardinality({j \in 1..Len(s) : before(j, i)})])
  IN  Tuple([k \in 1..Len(s) |-> s[CHOOSE i \in 1..Len(s) : rank[i] = k - 1]])

\* Series.median(): skips missing values; the middle value, or the mean of
\* the two middle values; NaN when nothing is left
Median(s) ==
  LET k == SortAsc(DropNaN(s))
      n == Len(k)
  IN  IF n = 0 THEN NaN
      ELSE IF n % 2 = 1 THEN k[(n + 1) \div 2]
      ELSE RDiv(RAdd(k[n \div 2], k[(n \div 2) + 1]), Num(2))

\* Series.diff(): first row missing
Diff(s) == Tuple([i \in 1..Len(s) |-> IF i = 1 THEN NaN ELSE RSub(s[i], s[i - 1])])

\* Series.rolling(window=w, center=True).mean(): min_periods = w, so a row is
\* missing unless its whole window lies in the series and holds no NaN
RollingMeanCentered(s, w) ==
  LET off == (w - 1) \div 2
  IN  Tuple([i \in 1..Len(s) |->
               LET lo == i + off - w + 1
                   hi == i + off
               IN  IF lo < 1 \/ hi > Len(s) THEN NaN
                   ELSE RDiv(SumRange(s, lo, hi), Num(w))])

\* index of the last valid (non-missing) value at or before i, 0 if none
LastValid(s, i) ==
  LET V == {j \in 1..i : ~IsNaN(s[j])}
  IN  IF V = {} THEN 0 ELSE CHOOSE j \in V : \A k \in V : k <= j

\* index of the first valid value at or after i, 0 if none
NextValid(s, i) ==
  LET V == {j \in i..Len(s) : ~IsNaN(s[j])}
  IN  IF V = {} THEN 0 ELSE CHOOSE j \in V : \A k \in V : k >= j

\* Series.interpolate(method='linear'): rows are equally spaced; the default
\* limit_direction is 'forward', so gaps after a valid value are filled (a
\* trailing gap with the last valid value) and a leading gap is left missing
Interpolate(s) ==
  Tuple([i \in 1..Len(s) |->
     IF ~IsNaN(s[i]) THEN s[i]
     ELSE LET p == LastValid(s, i)
              q == NextValid(s, i)
          IN  IF p = 0 THEN NaN
              ELSE IF q = 0 THEN s[p]
              ELSE RAdd(s[p], RDiv(RMul(RSub(s[q], s[p]), Num(i - p)), Num(q - p)))])

\* Series.ffill(): propagate the last valid value forward
FFill(s) ==
  Tuple([i \in 1..Len(s) |-> LET p == LastValid(s, i) IN IF p = 0 THEN NaN ELSE s[p]])

\* Series.bfill(): propagate the next valid value backward
BFill(s) ==
  Tuple([i \in 1..Len(s) |-> LET q == NextValid(s, i) IN IF q = 0 THEN NaN ELSE s[q]])

\* Series.clip(lo, hi): missing values stay missing
Clip(s, lo, hi) ==
  Tuple([i \in 1..Len(s) |->
     IF IsNaN(s[i]) THEN NaN
     ELSE IF RLt(s[i], lo) THEN lo
     ELSE IF RGt(s[i], hi) THEN hi
     ELSE s[i]])

\* Series.clip(lower=lo)
ClipLower(s, lo) ==
  Tuple([i \in 1..Len(s) |-> IF IsNaN(s[i]) THEN NaN ELSE IF RLt(s[i], lo) THEN lo ELSE s[i]])

\* Series.fillna(v)
FillNa(s, v) == Tuple([i \in 1..Len(s) |-> IF IsNaN(s[i]) THEN v ELSE s[i]])

\* Series.replace(a, b)
Replace(s, a, b) == Tuple([i \in 1..Len(s) |-> IF s[i] = a THEN b ELSE s[i]])

\* elementwise operations
Scale(s, k) == Tuple([i \in 1..Len(s) |-> RMul(s[i], k)])

SeqAdd(s, t) == Tuple([i \in 1..Len(s) |-> RAdd(s[i], t[i])])

SeqMul(s, t) == Tuple([i \in 1..Len(s) |-> RMul(s[i], t[i])])

SeqDiv(s, t) == Tuple([i \in 1..Len(s) |-> RDiv(s[i], t[i])])

(***************************************************************************)
(* Tables (pandas.DataFrame): an index, whether the index is a time index  *)
(* (DatetimeIndex, in seconds) or the default RangeIndex, and the columns  *)
(***************************************************************************)
EmptyCols == [c \in {} |-> <<>>]

NoDf == [index |-> <<>>, dtindex |-> FALSE, cols |-> EmptyCols]

Columns(t) == DOMAIN t.cols

NRows(t) == Len(t.index)

\* DataFrame.empty: any axis of length 0
Empty(t) == NRows(t) = 0 \/ Columns(t) = {}

\* df[c] = s
SetCol(t, c, s) ==
  [t EXCEPT !.cols = [k \in Columns(t) \cup {c} |-> IF k = c THEN s ELSE t.cols[k]]]

\* df.drop(cs, axis=1)
DropCols(t, cs) == [t EXCEPT !.cols = [k \in Columns(t) \ cs |-> t.cols[k]]]

\* pd.DataFrame(data_points): one row per record, one column per field name
\* seen in any record, missing where a record lacks the field
DataFrame(data_points) ==
  LET names == UNION {DOMAIN data_points[i] : i \in 1..Len(data_points)}
  IN  [index   |-> Tuple([i \in 1..Len(data_points) |-> Num(i - 1)]),
       dtindex |-> FALSE,
       cols    |-> [c \in names |->
                      Tuple([i \in 1..Len(data_points) |->
                         IF c \in DOMAIN data_points[i] THEN data_points[i][c] ELSE NaN])]]

\* rows of t selected by a boolean mask, df[mask]
Filter(t, mask) ==
  [index |-> Keep(t.index, mask), dtindex |-> t.dtindex,
   cols |-> [c \in Columns(t) |-> Keep(t.cols[c], mask)]]

\* Index.is_monotonic_increasing (non-decreasing)
Monotonic(idx) == \A i \in 1..(Len(idx) - 1) : RLe(idx[i], idx[i + 1])

(***************************************************************************)
(* load_fit, stage by stage                                                *)
(***************************************************************************)
\* 180 / 2**31, in lowest terms
conversion_factor == <<45, 536870912>>

\* "Convert positions": only when both raw columns exist
ConvertPositions(t) ==
  IF {"position_lat", "position_long"} \subseteq Columns(t)
  THEN DropCols(SetCol(SetCol(t, "latitude", Scale(t.cols["position_lat"], conversion_factor)),
                       "longitude", Scale(t.cols["position_long"], conversion_factor)),
                {"position_lat", "position_long"})
  ELSE t

\* "Timestamp": the column becomes the index, in the records' order
SetTimestampIndex(t) ==
  IF "timestamp" \in Columns(t)
  THEN [index |-> t.cols["timestamp"], dtindex |-> TRUE,
        cols |-> [k \in Columns(t) \ {"timestamp"} |-> t.cols[k]]]
  ELSE t

cols_to_fix == {"heart_rate", "enhanced_speed", "accumulated_power", "power",
                "enhanced_altitude", "step_length", "cadence", "latitude", "longitude"}

\* a faulty variant: the fill without the final bfill: a leading gap stays missing
FixSeriesNoBFill(s) == FFill(Interpolate(s))

\* df[col].interpolate(method='linear').ffill().bfill()
FixSeries(s) == BFill(FFill(Interpolate(s)))

\* "Interpolate common columns if present"
GapFill(t) ==
  [t EXCEPT !.cols = [k \in Columns(t) |->
                        IF k \in cols_to_fix THEN FixSeries(t.cols[k]) ELSE t.cols[k]]]

\* km/h per m/s
KMH == <<18, 5>>

AddSpeedKmh(t) ==
  IF "enhanced_speed" \in Columns(t)
  THEN SetCol(t, "speed_kmh", Scale(t.cols["enhanced_speed"], KMH))
  ELSE t

AddDeltaAlt(t) ==
  IF "enhanced_altitude" \in Columns(t)
  THEN SetCol(t, "delta_alt", Diff(t.cols["enhanced_altitude"]))
  ELSE t

SLOPE_WINDOW == 25

CLIP_LO == -50

CLIP_HI == 30

\* the slope block raises KeyError('delta_alt') when distance is present and
\* enhanced_altitude (hence delta_alt) is not
SlopeRaises(t) == "distance" \in Columns(t) /\ "delta_alt" \notin Columns(t)

\* a faulty variant: the smoothed slope without the clip
SmoothSlopeUnclipped(slope_raw) ==
  FillNa(RollingMeanCentered(slope_raw, SLOPE_WINDOW), Num(0))

\* slope_smooth from slope_raw
SmoothSlope(slope_raw) ==
  FillNa(Clip(RollingMeanCentered(slope_raw, SLOPE_WINDOW), Num(CLIP_LO), Num(CLIP_HI)),
         Num(0))

\* the slope block when it does not raise
AddSlope(t) ==
  IF "distance" \in Columns(t)
  THEN LET delta_dist == Replace(Diff(t.cols["distance"]), Num(0), NaN)
           slope_raw == Scale(SeqDiv(t.cols["delta_alt"], delta_dist), Num(100))
       IN  SetCol(SetCol(SetCol(t, "delta_dist", delta_dist), "slope_raw", slope_raw),
                  "slope_smooth", SmoothSlope(slope_raw))
  ELSE t

(***************************************************************************)
(* enrich_energy and ensure_cadence_spm                                    *)
(***************************************************************************)
RECURSIVE RPow(_, _)
RPow(a, k) == IF k = 0 THEN Num(1) ELSE RMul(a, RPow(a, k - 1))

calculate_energy_cost(slope_percent) ==
  LET g == RDiv(slope_percent, Num(100))
      cost == RAdd(RAdd(RAdd(RAdd(RAdd(
                RMul(Rat(1554, 10), RPow(g, 5)),
                RNeg(RMul(Rat(304, 10), RPow(g, 4)))),
                RNeg(RMul(Rat(433, 10), RPow(g, 3)))),
                RMul(Rat(463, 10), RPow(g, 2))),
                RMul(Rat(195, 10), g)),
                Rat(36, 10))
  IN  RDiv(cost, Rat(36, 10))

CADENCE_SPM_MIN == 100

\* a faulty variant: the decision taken per sample instead of once per activity
ensure_cadence_spm_per_sample(t) ==
  IF "cadence" \in Columns(t)
  THEN SetCol(t, "cadence",
              Tuple([i \in 1..NRows(t) |->
                       IF RLt(t.cols["cadence"][i], Num(CADENCE_SPM_MIN))
                       THEN RMul(t.cols["cadence"][i], Num(2))
                       ELSE t.cols["cadence"][i]]))
  ELSE t

ensure_cadence_spm(t) ==
  IF "cadence" \in Columns(t)
  THEN IF RLt(Median(t.cols["cadence"]), Num(CADENCE_SPM_MIN))
       THEN SetCol(t, "cadence", Scale(t.cols["cadence"], Num(2)))
       ELSE t
  ELSE t

\* enrich_energy: the energy_cost column
AddEnergyCost(t) ==
  IF "slope_smooth" \in Columns(t)
  THEN SetCol(t, "energy_cost",
              Tuple([i \in 1..NRows(t) |-> calculate_energy_cost(t.cols["slope_smooth"][i])]))
  ELSE t

\* enrich_energy: the gap_speed column
AddGapSpeed(t) ==
  IF "enhanced_speed" \in Columns(t) /\ "energy_cost" \in Columns(t)
  THEN SetCol(t, "gap_speed", SeqMul(t.cols["enhanced_speed"], t.cols["energy_cost"]))
  ELSE t

(***************************************************************************)
(* Values passed between functions                                         *)
(***************************************************************************)
NoVal == [kind |-> "unset"]

PyNone == [kind |-> "None"]

Table(t) == [kind |-> "table", df |-> t]

Raised(type) == [kind |-> "raised", type |-> type]

NoExc == [type |-> "", msg |-> ""]

(***************************************************************************)
(* The analytics of app.py                                                 *)
(***************************************************************************)
plot_slope_speed_scatter(t) ==
  LET g == IF "speed_kmh" \notin Columns(t) /\ "enhanced_speed" \in Columns(t)
           THEN SetCol(t, "speed_kmh", Scale(t.cols["enhanced_speed"], KMH))
           ELSE t
  IN  IF {"slope_smooth", "speed_kmh", "cadence"} \subseteq Columns(g)
      THEN [kind |-> "fig", points |-> NRows(g)]
      ELSE PyNone

EF_WINDOW == 900

ACTIVE_HR == 40

ACTIVE_SPEED == 50

DRIFT_WINDOW_MIN == 60

\* what plot_effort_vs_terrain raises before it tests anything: the elapsed
\* time needs a time index (AttributeError on the default index), and the
\* three channels are read unguarded (KeyError)
EffortRaises(t) ==
  IF ~t.dtindex THEN "AttributeError"
  ELSE IF {"enhanced_altitude", "enhanced_speed", "heart_rate"} \subseteq Columns(t) THEN ""
  ELSE "KeyError"

\* df_eff after the active-sample filter, with its derived columns
EffortTable(t) ==
  LET time_min == Tuple([i \in 1..NRows(t) |-> RDiv(RSub(t.index[i], t.index[1]), Num(60))])
      delta_alt == Diff(t.cols["enhanced_altitude"])
      gain_pos == ClipLower(delta_alt, Num(0))
      real_speed_m_min == Scale(t.cols["enhanced_speed"], Num(60))
      effort_bonus_m_min == Scale(Scale(gain_pos, Num(10)), Num(60))
      effort == SeqAdd(real_speed_m_min, effort_bonus_m_min)
      t1 == SetCol(SetCol(SetCol(SetCol(t, "time_min", time_min), "delta_alt", delta_alt),
                   "gain_pos", gain_pos), "effort_speed_m_min", effort)
      mask_active == Tuple([i \in 1..NRows(t) |->
                        RGt(t.cols["heart_rate"][i], Num(ACTIVE_HR))
                        /\ RGt(effort[i], Num(ACTIVE_SPEED))])
      t2 == Filter(t1, mask_active)
      eff == SeqDiv(t2.cols["effort_speed_m_min"], t2.cols["heart_rate"])
  IN  SetCol(SetCol(t2, "efficiency_effort", eff),
             "ef_smooth", RollingMeanCentered(eff, EF_WINDOW))

\* Series.max() of a series without missing values
MaxSeq(s) == s[CHOOSE i \in 1..Len(s) : \A j \in 1..Len(s) : RGe(s[i], s[j])]

plot_effort_vs_terrain(t) ==
  IF EffortRaises(t) # "" THEN Raised(EffortRaises(t))
  ELSE LET e == EffortTable(t)
       IN  IF NRows(e) = 0 THEN PyNone
           ELSE LET tm == e.cols["time_min"]
                    ef == e.cols["efficiency_effort"]
                    total_time == MaxSeq(tm)
                    first == Tuple([i \in 1..NRows(e) |-> RLe(tm[i], Num(DRIFT_WINDOW_MIN))])
                    last == Tuple([i \in 1..NRows(e) |->
                               RGe(tm[i], RSub(total_time, Num(DRIFT_WINDOW_MIN)))])
                    avg_first == Mean(Keep(ef, first))
                    avg_last == Mean(Keep(ef, last))
                    loss_pct == RMul(RDiv(RSub(avg_first, avg_last), avg_first), Num(100))
                IN  [kind |-> "fig", time_min |-> tm, total_time |-> total_time,
                     avg_first |-> avg_first, avg_last |-> avg_last, loss_pct |-> loss_pct]

HEAT_WINDOW_S == 2700

\* position of the first maximum of a series without missing values (idxmax)
ArgMax(s) ==
  CHOOSE i \in 1..Len(s) :
    /\ \A j \in 1..Len(s) : RGe(s[i], s[j])
    /\ \A j \in 1..(i - 1) : RLt(s[j], s[i])

\* plot_heat_buildup: the 45 minutes before the heart-rate peak.  The label
\* arithmetic and slice need a time index (TypeError on the default index)
\* and a sorted one (KeyError on an unsorted index whose window start is no
\* label of it).  The rolling correlation drawn in the figure is not modelled.
plot_heat_buildup(t) ==
  IF "heart_rate" \notin Columns(t) \/ "gap_speed" \notin Columns(t) THEN PyNone
  ELSE IF ~t.dtindex THEN Raised("TypeError")
  ELSE IF \A i \in 1..NRows(t) : IsNaN(t.cols["heart_rate"][i]) THEN Raised("ValueError")
  ELSE IF ~Monotonic(t.index) THEN Raised("KeyError")
  ELSE LET time_peak == t.index[ArgMax(t.cols["heart_rate"])]
           start_window == RSub(time_peak, Num(HEAT_WINDOW_S))
           inwin == Tuple([i \in 1..NRows(t) |->
                       RGe(t.index[i], start_window) /\ RLe(t.index[i], time_peak)])
       IN  [kind |-> "fig", window |-> Keep(t.index, inwin)]

MIN_GAP_KMH == 3

BIN_LO == -40

BIN_HI == 40

\* a faulty variant: samples at exactly 3 km/h kept
IsMovingInclusive(gap_kmh) == RGe(gap_kmh, Num(MIN_GAP_KMH))

\* df_pace['gap_kmh'] > 3
IsMoving(gap_kmh) == RGt(gap_kmh, Num(MIN_GAP_KMH))

\* plot_pace_heatmap: median pace (min/km) per integer slope bin
plot_pace_heatmap(t) ==
  IF "gap_speed" \notin Columns(t) \/ "slope_smooth" \notin Columns(t) THEN PyNone
  ELSE LET gap_kmh == Scale(t.cols["gap_speed"], KMH)
           moving == Tuple([i \in 1..NRows(t) |-> IsMoving(gap_kmh[i])])
           kmh == Keep(gap_kmh, moving)
           gap_pace == Tuple([i \in 1..Len(kmh) |-> RDiv(Num(60), kmh[i])])
           slope == Keep(t.cols["slope_smooth"], moving)
           slope_bin == Tuple([i \in 1..Len(slope) |-> RRound(slope[i])])
           viz == Tuple([i \in 1..Len(slope) |-> slope_bin[i] >= BIN_LO /\ slope_bin[i] <= BIN_HI])
           bins == {slope_bin[i] : i \in {j \in 1..Len(slope) : viz[j]}}
       IN  [kind |-> "fig",
            heatmap |-> [b \in bins |->
                           Median(Keep(gap_pace,
                                       Tuple([i \in 1..Len(slope) |-> slope_bin[i] = b])))]]

(***************************************************************************)
(* Inputs: the uploaded container.  state is "ok", "bad_header" (FitFile   *)
(* cannot open it) or "bad_records" (the record messages cannot be read);  *)
(* records is what get_messages('record') yields, each a map from field    *)
(* name to value.                                                          *)
(***************************************************************************)
MaxLen == 4

LongLen == 27

Fields == {"timestamp", "position_lat", "position_long", "heart_rate", "enhanced_speed",
           "enhanced_altitude", "distance", "cadence", "power"}

\* a plain value of field f in the i-th record
BaseValue(f, i) ==
  CASE f = "timestamp" -> Num(600 * (i - 1))
    [] f = "position_lat" -> Num(536870912 + i * 16777216)
    [] f = "position_long" -> Num(i * 16777216 - 268435456)
    [] f = "heart_rate" -> Num(140 + 5 * i)
    [] f = "enhanced_speed" -> Rat(4 + i, 2)
    [] f = "enhanced_altitude" -> Num(100 + 3 * i)
    [] f = "distance" -> Num(10 * i)
    [] f = "cadence" -> Num(78 + 2 * i)
    [] f = "power" -> Num(200 + 10 * i)

Ok(records) == [state |-> "ok", records |-> records]

\* every subset of the fields, two records each
FieldContainers ==
  {Ok([i \in 1..2 |-> [f \in F |-> BaseValue(f, i)]]) : F \in SUBSET Fields}

\* the two values a gappy channel takes besides missing
GapValues(f) ==
  CASE f = "cadence" -> {Num(50), Num(150)}
    [] f = "position_lat" -> {Num(536870912), Num(805306368)}
    [] OTHER -> {Num(60), Num(150)}

GapFields == {"heart_rate", "enhanced_speed", "enhanced_altitude", "cadence", "power",
              "position_lat"}

\* one channel with sensor dropouts at arbitrary positions
GapContainers ==
  UNION {UNION { {Ok([i \in 1..n |->
                       [f \in {"timestamp", "position_long", c} |->
                          IF f = c THEN v[i] ELSE BaseValue(f, i)]])
                   : v \in [1..n -> GapValues(c) \cup {NaN}]}
                 : n \in 1..MaxLen}
         : c \in GapFields}

\* timestamps (seconds) of records emitted in any order, up to 150 minutes
TimeSet == {0, 1800, 4200, 9000}

\* a steady run (profile 1) or one with a low-heart-rate sample and a
\* standing descent (profile 2)
TimedValue(f, i, profile) ==
  CASE f = "heart_rate" -> IF profile = 2 /\ i = 2 THEN Num(35) ELSE Num(150)
    [] f = "enhanced_speed" -> IF profile = 2 /\ i = 3 THEN Num(0) ELSE Num(1 + (i % 3))
    [] f = "enhanced_altitude" -> IF profile = 2 THEN Num(100 - 2 * i) ELSE Num(100 + (i % 2))
    [] OTHER -> BaseValue(f, i)

TimedContainers ==
  UNION {UNION { {Ok([i \in 1..n |->
                       [f \in {"timestamp", "heart_rate", "enhanced_speed",
                               "enhanced_altitude", "distance"} |->
                          IF f = "timestamp" THEN Num(ts[i]) ELSE TimedValue(f, i, profile)]])
                   : ts \in [1..n -> TimeSet]}
                 : n \in 1..MaxLen}
         : profile \in {1, 2}}

\* recordings longer than the slope window: a constant climb of a altitude
\* units per 16 distance units (slope 6.25 * a percent), minute by minute,
\* with at most one anomaly at record p
Climbs == {-16, -8, -7, -6, -3, -2, 0, 1, 2, 3, 4, 8}

Positions == {2, 14, 26}

Scenarios ==
  {[a |-> a, kind |-> "none", p |-> 0] : a \in Climbs}
  \cup {[a |-> a, kind |-> k, p |-> p] :
          a \in Climbs, k \in {"missing", "stall", "jump"}, p \in Positions}
  \cup {[a |-> a, kind |-> "back", p |-> p] : a \in {-16, 0, 8}, p \in Positions}

LongValue(f, i, sc) ==
  CASE f = "timestamp" -> Num(60 * (i - 1))
    [] f = "heart_rate" -> Num(150 + (i % 3))
    [] f = "cadence" -> Num(80)
    [] f = "enhanced_speed" -> CASE i % 4 = 0 -> Rat(5, 6)
                                 [] i % 4 = 1 -> Num(1)
                                 [] i % 4 = 2 -> Num(2)
                                 [] OTHER -> Rat(1, 2)
    [] f = "enhanced_altitude" ->
         Num(1000 + sc.a * i + (IF sc.kind = "jump" /\ i >= sc.p THEN 25 ELSE 0))
    [] f = "distance" ->
         IF sc.kind = "missing" /\ i = sc.p THEN NaN
         ELSE Num(16 * i - (IF sc.kind = "stall" /\ i >= sc.p THEN 16
                            ELSE IF sc.kind = "back" /\ i >= sc.p THEN 32 ELSE 0))

LongContainers ==
  UNION { {Ok([i \in 1..n |->
                [f \in {"timestamp", "heart_rate", "cadence", "enhanced_speed",
                        "enhanced_altitude", "distance"} |-> LongValue(f, i, sc)]])
            : sc \in Scenarios}
          : n \in (SLOPE_WINDOW + 1)..LongLen}

Containers ==
  {[state |-> "bad_header", records |-> <<>>], [state |-> "bad_records", records |-> <<>>],
   Ok(<<>>)}
  \cup FieldContainers \cup GapContainers \cup TimedContainers \cup LongContainers

(***************************************************************************)
(* The state machine                                                       *)
(***************************************************************************)
Init ==
  /\ container \in Containers
  /\ pc = "open"
  /\ df = NoDf
  /\ exc = NoExc
  /\ lf_ret = NoVal
  /\ stages = <<>>
  /\ result = NoVal
  /\ analysis = ""
  /\ fig = NoVal

\* a stage of load_fit / preprocess_all that cannot fail: df is replaced by
\* its enriched form and control moves on
Stage(at, name, t, next) ==
  /\ pc = at
  /\ df' = t
  /\ stages' = Append(stages, name)
  /\ pc' = next
  /\ UNCHANGED <<container, exc, lf_ret, result, analysis, fig>>

\* an exception leaves preprocess_all
Raise(at, type, msg) ==
  /\ pc = at
  /\ exc' = [type |-> type, msg |-> msg]
  /\ pc' = "raised"
  /\ UNCHANGED <<container, df, lf_ret, stages, result, analysis, fig>>

\* FitFile(file): a failure to open is re-raised as ValueError
OpenFit ==
  IF container.state = "bad_header"
  THEN Raise("open", "ValueError", "Failed to parse FIT file")
  ELSE /\ pc = "open"
       /\ pc' = "parse"
       /\ UNCHANGED <<container, df, exc, lf_ret, stages, result, analysis, fig>>

\* the record loop and pd.DataFrame(data_points); an error while reading the
\* messages is not caught by load_fit
ParseRecords ==
  IF container.state = "bad_records"
  THEN Raise("parse", "FitParseError", "")
  ELSE Stage("parse", "parse", DataFrame(container.records), "check_empty")

\* if df.empty: return df
CheckEmpty ==
  /\ pc = "check_empty"
  /\ IF Empty(df) THEN lf_ret' = Table(df) /\ pc' = "loaded"
                  ELSE lf_ret' = lf_ret /\ pc' = "coords"
  /\ UNCHANGED <<container, df, exc, stages, result, analysis, fig>>

Coords == Stage("coords", "coords", ConvertPositions(df), "timestamp")

Timestamp == Stage("timestamp", "timestamp", SetTimestampIndex(df), "gapfill")

Interpolation == Stage("gapfill", "gapfill", GapFill(df), "speed_kmh")

SpeedKmh == Stage("speed_kmh", "speed_kmh", AddSpeedKmh(df), "delta_alt")

DeltaAlt == Stage("delta_alt", "delta_alt", AddDeltaAlt(df), "slope")

\* the slope block, then return df
Slope ==
  IF SlopeRaises(df)
  THEN Raise("slope", "KeyError", "delta_alt")
  ELSE /\ pc = "slope"
       /\ df' = AddSlope(df)
       /\ stages' = Append(stages, "slope")
       /\ lf_ret' = Table(df')
       /\ pc' = "loaded"
       /\ UNCHANGED <<container, exc, result, analysis, fig>>

\* preprocess_all after load_fit returned: an empty table is an error
CheckLoaded ==
  IF Empty(df)
  THEN Raise("loaded", "ValueError", "No records found in FIT file after parsing")
  ELSE /\ pc = "loaded"
       /\ pc' = "energy_cost"
       /\ UNCHANGED <<container, df, exc, lf_ret, stages, result, analysis, fig>>

EnergyCost == Stage("energy_cost", "energy_cost", AddEnergyCost(df), "gap_speed")

GapSpeed == Stage("gap_speed", "gap_speed", AddGapSpeed(df), "cadence")

Cadence == Stage("cadence", "ensure_cadence_spm", ensure_cadence_spm(df), "return")

\* preprocess_all returns df, and load_and_preprocess returns it
Return ==
  /\ pc = "return"
  /\ result' = Table(df)
  /\ pc' = "main"
  /\ UNCHANGED <<container, df, exc, lf_ret, stages, analysis, fig>>

\* a faulty variant: the lenient variant: the table built so far is returned
CatchReturnsPartial ==
  /\ pc = "raised"
  /\ result' = Table(df)
  /\ pc' = "main"
  /\ UNCHANGED <<container, df, exc, lf_ret, stages, analysis, fig>>

\* load_and_preprocess: except Exception -> st.error, return None
Catch ==
  /\ pc = "raised"
  /\ result' = PyNone
  /\ pc' = "main"
  /\ UNCHANGED <<container, df, exc, lf_ret, stages, analysis, fig>>

\* main(): no table, nothing to analyse
NoData ==
  /\ pc = "main"
  /\ result = PyNone
  /\ pc' = "done"
  /\ UNCHANGED <<container, df, exc, lf_ret, stages, result, analysis, fig>>

\* main(): the selected analysis runs on the table
Analyse(name, outcome) ==
  /\ pc = "main"
  /\ result.kind = "table"
  /\ analysis' = name
  /\ fig' = outcome
  /\ pc' = "done"
  /\ UNCHANGED <<container, df, exc, lf_ret, stages, result>>

Scatter == Analyse("Scatter Slope/Speed", plot_slope_speed_scatter(result.df))

Effort == Analyse("Effort Km", plot_effort_vs_terrain(result.df))

Heat == Analyse("Heat Buildup", plot_heat_buildup(result.df))

Pace == Analyse("Pace Heatmap", plot_pace_heatmap(result.df))

Preview == Analyse("Data Preview", [kind |-> "preview"])

Next ==
  \/ OpenFit
  \/ ParseRecords
  \/ CheckEmpty
  \/ Coords
  \/ Timestamp
  \/ Interpolation
  \/ SpeedKmh
  \/ DeltaAlt
  \/ Slope
  \/ CheckLoaded
  \/ EnergyCost
  \/ GapSpeed
  \/ Cadence
  \/ Return
  \/ Catch
  \/ NoData
  \/ Scatter
  \/ Effort
  \/ Heat
  \/ Pace
  \/ Preview

Spec == Init /\ [][Next]_vars

(***************************************************************************)
(* Properties                                                              *)
(***************************************************************************)
Records == container.records

AllStages == <<"parse", "coords", "timestamp", "gapfill", "speed_kmh", "delta_alt", "slope",
               "energy_cost", "gap_speed", "ensure_cadence_spm">>

\* load_fit has returned or raised
LoadFitOver == pc \in {"loaded", "raised", "energy_cost", "gap_speed", "cadence", "return",
                       "main", "done"}

\* preprocess_all has returned or raised
PreprocessOver == pc \in {"raised", "main", "done"}

EmptyError == [type |-> "ValueError", msg |-> "No records found in FIT file after parsing"]

\* C1: ingestion (load_fit and preprocess_all alike) of a container with zero
\* track-point records raises an error instead of returning an empty table,
\* and a container that cannot be decoded raises an error the caller can tell
\* from the zero-record one.
C1_IngestionErrorsAreHard ==
  /\ (container.state = "ok" /\ Len(Records) = 0 /\ LoadFitOver) => lf_ret.kind # "table"
  /\ (container.state = "ok" /\ Len(Records) = 0 /\ PreprocessOver) => exc = EmptyError
  /\ (container.state # "ok" /\ PreprocessOver) => (exc # NoExc /\ exc # EmptyError)

\* C2: whenever at least one record was decoded, the table has exactly one row
\* per decoded record at every stage, and the table preprocess_all returns has
\* a non-decreasing time index, whatever the order the records were emitted in.
C2_RowsAndTimeOrder ==
  /\ (container.state = "ok" /\ Len(Records) >= 1 /\ pc \notin {"open", "parse"})
       => NRows(df) = Len(Records)
  /\ result.kind = "table"
       => (NRows(result.df) = Len(Records) /\ Monotonic(result.df.index))

\* the centered window of row i is cut by an end of the recording or holds a
\* missing slope_raw
WindowIncomplete(t, i) ==
  \/ i - 12 < 1
  \/ i + 12 > NRows(t)
  \/ \E j \in (i - 12)..(i + 12) : IsNaN(t.cols["slope_raw"][j])

\* C3: whenever slope_smooth exists, every row of it is a non-missing value
\* within [-50, 30], and a row whose centered 25-sample window is incomplete
\* or contains a missing slope_raw holds 0.
C3_SlopeSmoothBounded ==
  "slope_smooth" \in Columns(df) =>
    \A i \in 1..NRows(df) :
      LET v == df.cols["slope_smooth"][i]
      IN  /\ ~IsNaN(v)
          /\ RGe(v, Num(-50))
          /\ RLe(v, Num(30))
          /\ WindowIncomplete(df, i) => v = Num(0)

\* a full window whose mean slope exceeds the upper clip bound, a row left at
\* 0 by the start of the recording, and a backward step of the distance
C3_Witness ==
  /\ "slope_smooth" \in Columns(df)
  /\ \E i \in 1..NRows(df) :
       /\ ~WindowIncomplete(df, i)
       /\ df.cols["slope_smooth"][i] = Num(30)
       /\ RGt(df.cols["slope_raw"][i], Num(30))
  /\ df.cols["slope_smooth"][1] = Num(0)
  /\ \E i \in 1..NRows(df) : RLt(df.cols["delta_dist"][i], Num(0))

\* what each analytic needs of the table
Required(name) ==
  CASE name = "Scatter Slope/Speed" -> {"slope_smooth", "enhanced_speed", "cadence"}
    [] name = "Effort Km" -> {"timestamp", "enhanced_altitude", "enhanced_speed", "heart_rate"}
    [] name = "Heat Buildup" -> {"timestamp", "heart_rate", "gap_speed"}
    [] name = "Pace Heatmap" -> {"gap_speed", "slope_smooth"}
    [] OTHER -> {}

\* the columns of a table, the time index counted as "timestamp"
Present(t) == Columns(t) \cup (IF t.dtindex THEN {"timestamp"} ELSE {})

\* C4: an analytic called on a table that lacks any of its required columns
\* returns None ("unavailable") and never raises.
C4_AnalyticsDegrade ==
  (pc = "done" /\ result.kind = "table" /\ ~(Required(analysis) \subseteq Present(result.df)))
    => fig = PyNone

\* the fields of the records
FieldsOf(recs) == UNION {DOMAIN recs[i] : i \in 1..Len(recs)}

\* C5: for every non-empty record sequence and every subset of optional fields
\* preprocess_all completes without raising, and the table it returns holds a
\* derived column exactly when its inputs are present; gap_speed if and only
\* if both enhanced_speed and slope_smooth.
C5_OptionalFieldsTolerated ==
  /\ (container.state = "ok" /\ Len(Records) >= 1 /\ FieldsOf(Records) # {}) => pc # "raised"
  /\ result.kind = "table" =>
       LET C == Columns(result.df)
           F == FieldsOf(Records)
       IN  /\ "gap_speed" \in C <=> ("enhanced_speed" \in C /\ "slope_smooth" \in C)
           /\ "energy_cost" \in C <=> "slope_smooth" \in C
           /\ "slope_smooth" \in C <=> {"distance", "enhanced_altitude"} \subseteq F
           /\ "delta_alt" \in C <=> "enhanced_altitude" \in F
           /\ "speed_kmh" \in C <=> "enhanced_speed" \in F
           /\ "latitude" \in C <=> {"position_lat", "position_long"} \subseteq F

\* the table as load_fit holds it just before the gap-filling step
BeforeGapFill == SetTimestampIndex(ConvertPositions(DataFrame(Records)))

Valid(s) == {j \in 1..Len(s) : ~IsNaN(s[j])}

\* what gap filling must leave at row i of a channel that read s before
Filled(s, i) ==
  LET left == {j \in Valid(s) : j < i}
      right == {j \in Valid(s) : j > i}
      p == CHOOSE j \in left : \A k \in left : k <= j
      q == CHOOSE j \in right : \A k \in right : k >= j
  IN  IF i \in Valid(s) THEN s[i]
      ELSE IF left # {} /\ right # {}
           THEN RDiv(RAdd(RMul(s[p], Num(q - i)), RMul(s[q], Num(i - p))), Num(q - p))
      ELSE IF left # {} THEN s[p]
      ELSE IF right # {} THEN s[q]
      ELSE NaN

\* C6: after the gap-filling step every candidate channel that had a
\* non-missing sample has none missing: interior gaps lie on the line between
\* their two neighbours, leading and trailing gaps take the nearest known
\* value, known samples are unchanged; a wholly missing channel stays so.
C6_GapFilling ==
  pc = "speed_kmh" =>
    \A c \in Columns(df) \cap cols_to_fix :
      LET before == BeforeGapFill.cols[c]
          after == df.cols[c]
      IN  /\ Len(after) = Len(before)
          /\ \A i \in 1..Len(before) : after[i] = Filled(before, i)
          /\ Valid(before) # {} => Valid(after) = 1..Len(after)
          /\ Valid(before) = {} => Valid(after) = {}

\* a channel with a leading gap and a two-sample interior gap, filled
C6_Witness ==
  /\ pc = "speed_kmh"
  /\ "heart_rate" \in Columns(df)
  /\ BeforeGapFill.cols["heart_rate"] = <<Num(60), NaN, NaN, Num(150)>>
  /\ df.cols["heart_rate"] = <<Num(60), Num(90), Num(120), Num(150)>>

\* C7: cadence normalisation is one decision per activity: a channel whose
\* median is below 100 has every sample doubled, once; any other channel, and
\* a table without cadence, is left as load_fit returned it.
C7_CadenceNormalisation ==
  pc \in {"return", "main", "done"} /\ exc = NoExc =>
    LET before == lf_ret.df
    IN  /\ "cadence" \in Columns(df) <=> "cadence" \in Columns(before)
        /\ "cadence" \in Columns(before) =>
             LET b == before.cols["cadence"]
                 a == df.cols["cadence"]
             IN  IF RLt(Median(b), Num(100))
                 THEN /\ \A i \in 1..Len(b) : a[i] = RMul(b[i], Num(2))
                      /\ Median(a) = RMul(Median(b), Num(2))
                 ELSE a = b

\* a channel of median 80, doubled to median 160
C7_Witness ==
  /\ pc = "return"
  /\ "cadence" \in Columns(df)
  /\ Median(lf_ret.df.cols["cadence"]) = Num(80)
  /\ Median(df.cols["cadence"]) = Num(160)

IsPrefix(s, t) == Len(s) <= Len(t) /\ SubSeq(t, 1, Len(s)) = s

\* the stages that can have completed before each failure: the slope block
\* fails after delta_alt; the empty-table check fails after load_fit returned,
\* early (no row or no column parsed) or at its end (no column left beside
\* the index); opening and reading fail before anything is built
StagesBefore(e) ==
  CASE e.type = "KeyError" -> {SubSeq(AllStages, 1, 6)}
    [] e = EmptyError -> {<<"parse">>, SubSeq(AllStages, 1, 7)}
    [] OTHER -> {<<>>}

\* C8: stages run in dependency order, a failing stage ends the pipeline, and
\* a caller is handed a table only when every stage ran: after a failure no
\* later stage has executed, preprocess_all hands no table on and
\* load_and_preprocess returns None.
C8_FailureAborts ==
  /\ IsPrefix(stages, AllStages)
  /\ exc # NoExc => (stages \in StagesBefore(exc) /\ result.kind # "table" /\ fig = NoVal)
  /\ (exc # NoExc /\ pc \in {"main", "done"}) => result = PyNone
  /\ result.kind = "table" => (stages = AllStages /\ exc = NoExc /\ result.df = df)

\* the slope block failed: nothing ran after it and the caller got None
C8_Witness ==
  /\ pc = "done"
  /\ exc.type = "KeyError"
  /\ result = PyNone
  /\ stages = SubSeq(AllStages, 1, 6)

RAbs(a) == IF a[1] < 0 THEN RNeg(a) ELSE a

\* b is the integer nearest to v, the even one of two equally near
NearestInt(v, b) ==
  LET d == RAbs(RSub(v, Num(b)))
  IN  RLt(d, Rat(1, 2)) \/ (d = Rat(1, 2) /\ b % 2 = 0)

\* m is the median of the values v[i], i in I (I not empty)
IsMedianOf(m, v, I) ==
  LET n == Cardinality(I)
      below(x) == Cardinality({i \in I : RLt(v[i], x)})
      above(x) == Cardinality({i \in I : RGt(v[i], x)})
  IN  IF n % 2 = 1
      THEN \E i \in I : m = v[i] /\ below(m) <= n \div 2 /\ above(m) <= n \div 2
      ELSE \E i, j \in I :
             /\ i # j
             /\ RLe(v[i], v[j])
             /\ below(v[i]) <= (n \div 2) - 1
             /\ above(v[j]) <= (n \div 2) - 1
             /\ RMul(m, Num(2)) = RAdd(v[i], v[j])

C10_DriftUndefinedWhenShort ==
  (pc = "done" /\ analysis = "Effort Km" /\ fig.kind = "fig") =>
    /\ fig.loss_pct = RMul(RDiv(RSub(fig.avg_first, fig.avg_last), fig.avg_first), Num(100))
    /\ (\A i, j \in 1..Len(fig.time_min) :
          RLt(RSub(fig.time_min[i], fig.time_min[j]), Num(60)))
         => IsNaN(fig.loss_pct)

====
